---------------------------- MODULE Spec2Model ----------------------------
(***************************************************************************)
(* A model of @ga-ut/fetcher (src/src/index.ts): the Fetcher class, its    *)
(* configuration, its two interceptor lists and the request pipeline of    *)
(* Fetcher.action, with every await of the pipeline a separate step.       *)
(*                                                                         *)
(* Strings the code inspects character by character (URLs, response        *)
(* header values) are sequences of one-character strings; strings the code *)
(* only compares for equality (header names, request header values,        *)
(* methods) are TLA+ strings.  JavaScript objects used as key/value bags   *)
(* (headers, options, params) are functions whose domain is the set of own *)
(* keys.                                                                   *)
(***************************************************************************)
EXTENDS Naturals, Sequences, FiniteSets, TLC

VARIABLES
    baseUrl,                \* Fetcher.baseUrl
    baseHeaders,            \* Fetcher.baseHeaders
    baseOptions,            \* Fetcher.baseOptions
    baseThrower,            \* Fetcher.baseThrower
    requestInterceptors,    \* Fetcher.requestInterceptors
    responseInterceptors,   \* Fetcher.responseInterceptors
    constructorOptions,     \* the options the constructor was given
    calls,                  \* the invocations of Fetcher.action, by call id
    probe                   \* input and output of a pure function under test

vars == <<baseUrl, baseHeaders, baseOptions, baseThrower,
          requestInterceptors, responseInterceptors, constructorOptions,
          calls, probe>>

config == <<baseUrl, baseHeaders, baseOptions, baseThrower, constructorOptions>>

-----------------------------------------------------------------------------
(* Bounds of the model.                                                    *)

\* Number of verb-method invocations in one behaviour.
MaxCalls == 1

\* Length of each interceptor list.
MaxInterceptors == 2

\* Number of pieces a URL given to normalizeUrl is assembled from.
MaxUrlPieces == 3

\* Number of invocations that may be in flight together on one instance.
MaxInFlight == 2

-----------------------------------------------------------------------------
(* JavaScript strings as sequences of characters.                          *)

WhiteSpace == {" ", "\t", "\n"}

RECURSIVE TrimStart(_)
TrimStart(s) ==
    IF s # <<>> /\ Head(s) \in WhiteSpace THEN TrimStart(Tail(s)) ELSE s

RECURSIVE TrimEnd(_)
TrimEnd(s) ==
    IF s # <<>> /\ s[Len(s)] \in WhiteSpace
    THEN TrimEnd(SubSeq(s, 1, Len(s) - 1))
    ELSE s

\* String.prototype.trim
Trim(s) == TrimEnd(TrimStart(s))

\* String.prototype.startsWith
StartsWith(s, p) == Len(p) <= Len(s) /\ SubSeq(s, 1, Len(p)) = p

\* String.prototype.includes
Includes(s, sub) ==
    \E i \in 0..Len(s) :
        i + Len(sub) <= Len(s) /\ SubSeq(s, i + 1, i + Len(sub)) = sub

\* Concatenation of a sequence of strings.
RECURSIVE Concat(_)
Concat(ss) == IF ss = <<>> THEN <<>> ELSE Head(ss) \o Concat(Tail(ss))

str_http == <<"h", "t", "t", "p">>
str_https == <<"h", "t", "t", "p", "s">>
str_slash == <<"/">>
str_attachment == <<"a", "t", "t", "a", "c", "h", "m", "e", "n", "t">>
str_text == <<"t", "e", "x", "t", "/">>
str_image == <<"i", "m", "a", "g", "e", "/">>
str_audio == <<"a", "u", "d", "i", "o", "/">>
str_video == <<"v", "i", "d", "e", "o", "/">>
str_application_vnd ==
    <<"a", "p", "p", "l", "i", "c", "a", "t", "i", "o", "n", "/", "v", "n", "d">>
str_application_octet_stream ==
    <<"a", "p", "p", "l", "i", "c", "a", "t", "i", "o", "n", "/",
      "o", "c", "t", "e", "t", "-", "s", "t", "r", "e", "a", "m">>
str_application_zip ==
    <<"a", "p", "p", "l", "i", "c", "a", "t", "i", "o", "n", "/", "z", "i", "p">>

-----------------------------------------------------------------------------
(* JavaScript objects as key/value bags.                                   *)

EmptyObject == <<>>

\* { ...a, ...b }: the keys of both, b's value on a key of both.
Spread(a, b) ==
    [k \in (DOMAIN a) \cup (DOMAIN b) |-> IF k \in DOMAIN b THEN b[k] ELSE a[k]]

\* The object without the keys ks (rest destructuring, delete).
Without(o, ks) == [k \in (DOMAIN o) \ ks |-> o[k]]

\* The value undefined.
Undefined == [kind |-> "undefined"]

-----------------------------------------------------------------------------
(* JSON.stringify and JSON.parse on the structured bodies of the model: an *)
(* object is an ordered list of <<key, value>> entries, a value a string   *)
(* or a number; the text is a sequence of tokens.                          *)

SyntaxError == [kind |-> "SyntaxError"]

EncodeScalar(x) == IF x.t = "string" THEN <<"\"", x.v, "\"">> ELSE <<x.v>>

EncodeEntry(e) == <<"\"", e[1], "\"", ":">> \o EncodeScalar(e[2])

RECURSIVE EncodeEntries(_)
EncodeEntries(es) ==
    IF es = <<>> THEN <<>>
    ELSE IF Len(es) = 1 THEN EncodeEntry(es[1])
    ELSE EncodeEntry(es[1]) \o <<",">> \o EncodeEntries(Tail(es))

\* What JSON.stringify throws on an object that refers to itself.
CyclicError == [kind |-> "TypeError", message |-> "cyclic object value"]

\* JSON.stringify(v): undefined for undefined, "{}" for an object without
\* own enumerable properties (a FormData), the entries of a plain object;
\* for an object that refers to itself, the error it throws.
JSONstringify(v) ==
    IF v.kind = "undefined" THEN Undefined
    ELSE IF v.kind = "cyclic" THEN CyclicError
    ELSE IF v.kind = "object"
    THEN [kind |-> "string",
          text |-> <<"{">> \o EncodeEntries(v.entries) \o <<"}">>]
    ELSE [kind |-> "string", text |-> <<"{", "}">>]

RECURSIVE ParseEntries(_, _)
ParseEntries(toks, acc) ==
    IF Len(toks) >= 6 /\ toks[1] = "\"" /\ toks[3] = "\"" /\ toks[4] = ":"
    THEN LET quoted == toks[5] = "\""
             wellFormed == quoted => (Len(toks) >= 8 /\ toks[7] = "\"")
             value == IF quoted THEN [t |-> "string", v |-> toks[6]]
                                ELSE [t |-> "number", v |-> toks[5]]
             rest == SubSeq(toks, IF quoted THEN 8 ELSE 6, Len(toks))
             entries == Append(acc, <<toks[2], value>>)
         IN  IF ~wellFormed \/ rest = <<>> THEN SyntaxError
             ELSE IF rest = <<"}">> THEN [kind |-> "object", entries |-> entries]
             ELSE IF rest[1] = "," THEN ParseEntries(Tail(rest), entries)
             ELSE SyntaxError
    ELSE SyntaxError

\* JSON.parse of a body: the object, or SyntaxError for anything that is not
\* the text of an object.
JSONparse(body) ==
    IF body.kind # "string" THEN SyntaxError
    ELSE IF body.text = <<"{", "}">> THEN [kind |-> "object", entries |-> <<>>]
    ELSE IF body.text # <<>> /\ Head(body.text) = "{"
    THEN ParseEntries(Tail(body.text), <<>>)
    ELSE SyntaxError

-----------------------------------------------------------------------------
(* Fetcher.normalizeUrl                                                    *)

normalizeUrl(url) ==
    LET result == Trim(url)
    IN  IF StartsWith(result, str_http) \/ StartsWith(result, str_https)
        THEN result
        ELSE IF result = <<>> \/ result[1] # "/"
        THEN str_slash \o result
        ELSE result

-----------------------------------------------------------------------------
(* Fetcher.action, up to the request it builds.                            *)

\* new Request(url, init)
NewRequest(url, init) ==
    [url |-> url,
     method |-> init.method,
     headers |-> init.headers,
     body |-> init.body,
     options |-> Without(init, {"method", "headers", "body"}),
     bodyUsed |-> FALSE]

\* const { body, method, ...rest } = params
ParamBody(params) ==
    IF "body" \in DOMAIN params THEN params.body ELSE Undefined

ParamRest(params) == Without(params, {"body", "method"})

\* body instanceof FormData
isFormData(body) == body.kind = "FormData"

\* A merge in which the base headers win: { ...rest.headers, ...baseHeaders }.
MergedHeadersBaseWins(bHeaders, params) ==
    LET rest == ParamRest(params)
        restHeaders ==
            IF "headers" \in DOMAIN rest THEN rest.headers ELSE EmptyObject
        headers == Spread(restHeaders, bHeaders)
    IN  IF isFormData(ParamBody(params))
        THEN Without(headers, {"Content-Type"})
        ELSE headers

\* A merge that keeps Content-Type whatever the body is.
MergedHeadersKeepType(bHeaders, params) ==
    LET rest == ParamRest(params)
        restHeaders ==
            IF "headers" \in DOMAIN rest THEN rest.headers ELSE EmptyObject
    IN  Spread(bHeaders, restHeaders)

\* const headers = { ...this.baseHeaders, ...rest.headers }, less
\* Content-Type for a FormData body
MergedHeaders(bHeaders, params) ==
    LET rest == ParamRest(params)
        restHeaders ==
            IF "headers" \in DOMAIN rest THEN rest.headers ELSE EmptyObject
        headers == Spread(bHeaders, restHeaders)
    IN  IF isFormData(ParamBody(params))
        THEN Without(headers, {"Content-Type"})
        ELSE headers

\* const options = { ...this.baseOptions, ...rest }
MergedOptions(bOptions, params) == Spread(bOptions, ParamRest(params))

\* A body that is never serialized.
RequestBodyRaw(headers, body) == body

\* headers["Content-Type"] === "application/json" ? JSON.stringify(body) : body
RequestBody(headers, body) ==
    IF "Content-Type" \in DOMAIN headers
       /\ headers["Content-Type"] = "application/json"
    THEN JSONstringify(body)
    ELSE body

\* rawRequest
RawRequest(bUrl, bHeaders, bOptions, url, params) ==
    LET headers == MergedHeaders(bHeaders, params)
        options == MergedOptions(bOptions, params)
        normalizedUrl == normalizeUrl(bUrl \o url)
    IN  NewRequest(normalizedUrl,
                   Spread(options,
                          [method |-> params.method,
                           headers |-> headers,
                           body |-> RequestBody(headers, ParamBody(params))]))

\* Building rawRequest throws: JSON.stringify(body) does.
RawRequestThrows(bHeaders, params) ==
    RequestBody(MergedHeaders(bHeaders, params), ParamBody(params)) = CyclicError

\* The params the verb methods hand to action.
GetParams(options) == Spread([method |-> "GET"], options)

BodyParams(method, data, options) ==
    Spread([method |-> method, body |-> data], options)

-----------------------------------------------------------------------------
(* Fetcher.action, from the final response on.                             *)

\* new Response(body, { status, headers })
NewResponse(status, headers, body) ==
    [status |-> status,
     ok |-> status \in 200..299,
     headers |-> headers,
     body |-> body]

\* A choice that tests the content type before the disposition.
DecodeKindTypeFirst(response) ==
    LET h == response.headers
        hasDisposition == "Content-Disposition" \in DOMAIN h
        hasType == "Content-Type" \in DOMAIN h
        disposition == h["Content-Disposition"]
        contentType == h["Content-Type"]
    IN  IF hasType /\ Includes(contentType, str_text) THEN "text"
        ELSE IF hasType
                /\ \/ Includes(contentType, str_image)
                   \/ Includes(contentType, str_audio)
                   \/ Includes(contentType, str_video)
                   \/ Includes(contentType, str_application_vnd)
                   \/ contentType = str_application_octet_stream
                   \/ contentType = str_application_zip
        THEN "blob"
        ELSE IF hasType THEN "json"
        ELSE IF hasDisposition /\ Includes(disposition, str_attachment) THEN "blob"
        ELSE "json"

\* The body-reading operation action chooses for a response.
DecodeKind(response) ==
    LET h == response.headers
        hasDisposition == "Content-Disposition" \in DOMAIN h
        hasType == "Content-Type" \in DOMAIN h
        disposition == h["Content-Disposition"]
        contentType == h["Content-Type"]
    IN  IF hasDisposition /\ Includes(disposition, str_attachment) THEN "blob"
        ELSE IF hasType /\ Includes(contentType, str_text) THEN "text"
        ELSE IF hasType
                /\ \/ Includes(contentType, str_image)
                   \/ Includes(contentType, str_audio)
                   \/ Includes(contentType, str_video)
                   \/ Includes(contentType, str_application_vnd)
                   \/ contentType = str_application_octet_stream
                   \/ contentType = str_application_zip
        THEN "blob"
        ELSE "json"

\* The outcome of the chosen body-reading operation: json() rejects with a
\* SyntaxError on a body that is not JSON text.
Decode(kind, response) ==
    IF kind = "json" /\ ~response.body.json
    THEN [ok |-> FALSE, value |-> SyntaxError]
    ELSE [ok |-> TRUE, value |-> [kind |-> kind, of |-> response.body]]

\* A default baseThrower that reads response.statusCode, which no Response has.
DefaultThrowerNoStatus(response, request) ==
    [kind |-> "FetcherError", url |-> request.url, statusCode |-> 0]

\* The default baseThrower.
DefaultThrower(response, request) ==
    [kind |-> "FetcherError", url |-> request.url, statusCode |-> response.status]

\* A baseError given to the constructor (the test's CustomError).
CustomThrower(response, request) ==
    [kind |-> "CustomError", url |-> request.url, statusCode |-> response.status]

\* this.baseThrower(response, request)
CallThrower(thrower, response, request) ==
    IF thrower = "baseError"
    THEN CustomThrower(response, request)
    ELSE DefaultThrower(response, request)

-----------------------------------------------------------------------------
(* The collaborators of the pipeline: the handlers a caller registers and  *)
(* the responses and failure of fetch.                                     *)

\* The handlers a caller may register as request interceptors.
RequestHandlers == {"setHeader", "substitute"}

\* The handlers a caller may register as response interceptors.
ResponseHandlers == {"pass", "replace"}

str_localhost ==
    <<"h", "t", "t", "p", ":", "/", "/", "l", "o", "c", "a", "l", "h", "o", "s", "t">>
str_test == <<"/", "t", "e", "s", "t">>
str_other == <<"h", "t", "t", "p", ":", "/", "/", "o", "t", "h", "e", "r", "/">>
str_application_json ==
    <<"a", "p", "p", "l", "i", "c", "a", "t", "i", "o", "n", "/", "j", "s", "o", "n">>

\* What a handler throws.
InterceptorError(h) == [kind |-> "InterceptorError", by |-> h]

\* What fetch rejects with.
NetworkError == [kind |-> "TypeError", message |-> "fetch failed"]

\* The request a substituting handler returns in place of its input.
OtherRequest ==
    NewRequest(str_other,
               [method |-> "GET", headers |-> EmptyObject, body |-> Undefined])

\* interceptor(result) of a request handler, when it does not fail: what it
\* returns.
\*   setHeader   sets X-Test-Header on the request and returns it
\*   substitute  returns another request
ApplyRequestHandler(h, request) ==
    IF h = "setHeader"
    THEN [request EXCEPT !.headers =
             Spread(@, [k \in {"X-Test-Header"} |-> "interceptor-works"])]
    ELSE OtherRequest

\* The response a replacing handler returns: a success for a failure and a
\* failure for a success.
OtherResponse(response) ==
    IF response.ok
    THEN NewResponse(500, EmptyObject, [json |-> FALSE, id |-> "replaced"])
    ELSE NewResponse(200, [k \in {"Content-Type"} |-> str_application_json],
                     [json |-> TRUE, id |-> "replaced"])

\* interceptor(ctx) of a response handler, when it does not fail: what it
\* returns.
\*   pass     returns a pair of the same request and response
\*   replace  returns a pair of another request and another response
ApplyResponseHandler(h, ctx) ==
    IF h = "pass"
    THEN [request |-> ctx.request, response |-> ctx.response]
    ELSE [request |-> OtherRequest, response |-> OtherResponse(ctx.response)]

\* The responses fetch resolves with.
TransportResponses ==
    { NewResponse(200, [k \in {"Content-Type"} |-> str_application_json],
                  [json |-> TRUE, id |-> "data"]),
      NewResponse(200, EmptyObject, [json |-> FALSE, id |-> "garbage"]),
      NewResponse(404, EmptyObject, [json |-> FALSE, id |-> "Not Found"]) }

\* request.clone(): a second request of the same contents, its body unread.
Clone(request) == [request EXCEPT !.bodyUsed = FALSE]

\* The request after fetch(request): fetch reads the body of a request that
\* has one.
Consumed(request) == [request EXCEPT !.bodyUsed = (request.body # Undefined)]

-----------------------------------------------------------------------------
(* One invocation of a verb method.                                        *)

CallIds == 1..MaxCalls

\* The events of a call, in the order they happen.
Event(ev, i, h, arg) == [ev |-> ev, i |-> i, h |-> h, arg |-> arg]

NoEvents == <<>>

IdleCall ==
    [pc |-> "idle",
     url |-> <<>>,
     params |-> EmptyObject,
     rawRequest |-> Undefined,
     request |-> Undefined,
     reqClone |-> Undefined,
     ctx |-> Undefined,
     i |-> 0,
     decoding |-> "",
     outcome |-> Undefined,
     registered |-> [request |-> 0, response |-> 0],
     log |-> NoEvents]

\* The call fails with err.
Reject(call, err) ==
    [call EXCEPT !.pc = "rejected",
                 !.outcome = err,
                 !.log = Append(@, Event("reject", 0, "", err))]

\* The call returns value.
Resolve(call, value) ==
    [call EXCEPT !.pc = "resolved",
                 !.outcome = value,
                 !.log = Append(@, Event("resolve", 0, "", value))]

\* The handler an iteration of a for-of loop over a list takes at position i.
HandlerAt(list, i) == list[i]

\* A requestHandler that iterates a copy of the list taken when the call was
\* made: for (const interceptor of [...this.requestInterceptors]).
RequestLoopSnapshot(call, request, i) ==
    IF i <= call.registered.request
    THEN [call EXCEPT
            !.pc = "requestInterceptor",
            !.request = request,
            !.i = i,
            !.log = Append(@, Event("requestInterceptor", i,
                                    HandlerAt(requestInterceptors, i), request))]
    ELSE [call EXCEPT
            !.pc = "requestHandled",
            !.request = request,
            !.i = i,
            !.log = Append(@, Event("requestHandler.returned", 0, "", request))]

\* requestHandler at iteration i of its loop, result being request: it calls
\* the interceptor at position i of the list as it is now and awaits it, or
\* returns result when the list has no position i.
RequestLoop(call, request, i) ==
    IF i <= Len(requestInterceptors)
    THEN [call EXCEPT
            !.pc = "requestInterceptor",
            !.request = request,
            !.i = i,
            !.log = Append(@, Event("requestInterceptor", i,
                                    HandlerAt(requestInterceptors, i), request))]
    ELSE [call EXCEPT
            !.pc = "requestHandled",
            !.request = request,
            !.i = i,
            !.log = Append(@, Event("requestHandler.returned", 0, "", request))]

\* A requestHandler that does not assign the interceptor's result.
RequestReturnedUnassigned(call, request) ==
    RequestLoop(
        [call EXCEPT !.log = Append(@, Event("requestInterceptor.settled",
                                             call.i, "", request))],
        call.request,
        call.i + 1)

\* requestHandler when the interceptor it awaits returns request: the next
\* iteration.
RequestReturned(call, request) ==
    RequestLoop(
        [call EXCEPT !.log = Append(@, Event("requestInterceptor.settled",
                                             call.i, "", request))],
        request,
        call.i + 1)

\* A chain that catches the failure of an interceptor and goes on from the
\* dispatch with the request it had.
InterceptorFailedCaught(call, err) ==
    [call EXCEPT
        !.pc = "requestHandled",
        !.log = @ \o <<Event("interceptor.failed", call.i, "", err),
                       Event("requestHandler.returned", 0, "", call.request)>>]

\* A chain when the interceptor it awaits fails with err: the failure leaves
\* the handler and action uncaught.
InterceptorFailed(call, err) ==
    Reject([call EXCEPT !.log = Append(@, Event("interceptor.failed",
                                                call.i, "", err))],
           err)

\* A retrying pipeline: fetch(request) twice.
DispatchTwice(call) ==
    [call EXCEPT
        !.pc = "fetch",
        !.reqClone = Clone(call.request),
        !.request = Consumed(call.request),
        !.log = @ \o <<Event("clone", 0, "", call.request),
                       Event("fetch", 0, "", call.request),
                       Event("fetch", 0, "", call.request)>>]

\* An action that keeps its request in a field of the instance, which the
\* invocation made last overwrites: the clone is taken of that one.
DispatchShared(call) ==
    LET last == CHOOSE c \in DOMAIN calls :
                    /\ calls[c].pc # "idle"
                    /\ \A d \in DOMAIN calls : d > c => calls[d].pc = "idle"
    IN  [call EXCEPT
            !.pc = "fetch",
            !.reqClone = Clone(calls[last].request),
            !.request = Consumed(call.request),
            !.log = @ \o <<Event("clone", 0, "", call.request),
                           Event("fetch", 0, "", call.request)>>]

\* An action that takes reqClone from the request fetch has read.
DispatchCloneAfterFetch(call) ==
    [call EXCEPT
        !.pc = "fetch",
        !.reqClone = Consumed(call.request),
        !.request = Consumed(call.request),
        !.log = @ \o <<Event("clone", 0, "", call.request),
                       Event("fetch", 0, "", call.request)>>]

\* action between requestHandler and the await of responseHandler: the clone,
\* then fetch(request).
Dispatch(call) ==
    [call EXCEPT
        !.pc = "fetch",
        !.reqClone = Clone(call.request),
        !.request = Consumed(call.request),
        !.log = @ \o <<Event("clone", 0, "", call.request),
                       Event("fetch", 0, "", call.request)>>]

\* responseHandler at iteration i of its loop.
ResponseLoop(call, ctx, i) ==
    IF i <= Len(responseInterceptors)
    THEN [call EXCEPT
            !.pc = "responseInterceptor",
            !.ctx = ctx,
            !.i = i,
            !.log = Append(@, Event("responseInterceptor", i,
                                    HandlerAt(responseInterceptors, i), ctx))]
    ELSE [call EXCEPT
            !.pc = "responseHandled",
            !.ctx = ctx,
            !.i = i,
            !.log = Append(@, Event("responseHandler.returned", 0, "",
                                    ctx.response))]

\* A responseHandler that runs its interceptors on an ok response only.
ResponseArrivedOkOnly(call, response) ==
    ResponseLoop(
        [call EXCEPT !.log = Append(@, Event("fetch.settled", 0, "", response))],
        [request |-> call.reqClone, response |-> response],
        IF response.ok THEN 1 ELSE Len(responseInterceptors) + 1)

\* A responseHandler given the request that was sent, not its clone.
ResponseArrivedWithSent(call, response) ==
    ResponseLoop(
        [call EXCEPT !.log = Append(@, Event("fetch.settled", 0, "", response))],
        [request |-> call.request, response |-> response],
        1)

\* responseHandler when the response promise resolves with response.
ResponseArrived(call, response) ==
    ResponseLoop(
        [call EXCEPT !.log = Append(@, Event("fetch.settled", 0, "", response))],
        [request |-> call.reqClone, response |-> response],
        1)

\* responseHandler when the interceptor it awaits returns ctx: the next
\* iteration.
ResponseReturned(call, ctx) ==
    ResponseLoop(
        [call EXCEPT !.log = Append(@, Event("responseInterceptor.settled",
                                             call.i, "", ctx))],
        ctx,
        call.i + 1)

\* An action that hands the error factory the request of the interceptors'
\* pair, not its own clone.
EvaluateWithCtxRequest(call, thrower) ==
    LET response == call.ctx.response
    IN  IF ~response.ok
        THEN LET error == CallThrower(thrower, response, call.ctx.request)
             IN  Reject([call EXCEPT
                           !.log = Append(@, Event("baseThrower", 0, "",
                                                   [response |-> response,
                                                    request |-> call.ctx.request,
                                                    error |-> error]))],
                        error)
        ELSE [call EXCEPT
                !.pc = "decode",
                !.decoding = DecodeKind(response),
                !.log = Append(@, Event(DecodeKind(response), 0, "", response))]

\* action after responseHandler returned ctx.response: the throw of a
\* response that is not ok, or the body-reading operation it awaits.
Evaluate(call, thrower) ==
    LET response == call.ctx.response
    IN  IF ~response.ok
        THEN LET error == CallThrower(thrower, response, call.reqClone)
             IN  Reject([call EXCEPT
                           !.log = Append(@, Event("baseThrower", 0, "",
                                                   [response |-> response,
                                                    request |-> call.reqClone,
                                                    error |-> error]))],
                        error)
        ELSE [call EXCEPT
                !.pc = "decode",
                !.decoding = DecodeKind(response),
                !.log = Append(@, Event(DecodeKind(response), 0, "", response))]

\* An action that catches the failure of the body-reading operation and
\* returns an empty object.
DecodedWithDefault(call) ==
    LET r == Decode(call.decoding, call.ctx.response)
    IN  IF r.ok
        THEN Resolve(call, r.value)
        ELSE Resolve(call, [kind |-> call.decoding,
                            of |-> [json |-> TRUE, id |-> "default"]])

\* action when the body-reading operation settles.
Decoded(call) ==
    LET r == Decode(call.decoding, call.ctx.response)
    IN  IF r.ok THEN Resolve(call, r.value) ELSE Reject(call, r.value)

-----------------------------------------------------------------------------
(* Construction.                                                           *)

\* The field a constructor option sets: the option when it is given and
\* truthy, the field's initializer otherwise.
OptionOr(options, key, falsy, initial) ==
    IF key \in DOMAIN options /\ options[key] # falsy
    THEN options[key]
    ELSE initial

\* A constructor that drops options.baseError.
ThrowerOfDropped(options) == "default"

\* The baseThrower the constructor leaves: "baseError" stands for the
\* function given as options.baseError, "default" for the initializer.
ThrowerOf(options) ==
    IF "baseError" \in DOMAIN options THEN "baseError" ELSE "default"

\* new Fetcher(options), on which the invocations ids will be made.
constructorFor(options, ids) ==
    /\ constructorOptions = options
    /\ baseUrl = OptionOr(options, "baseUrl", <<>>, <<>>)
    /\ baseHeaders =
          IF "baseHeaders" \in DOMAIN options THEN options.baseHeaders
          ELSE EmptyObject
    /\ baseOptions =
          IF "baseOptions" \in DOMAIN options THEN options.baseOptions
          ELSE EmptyObject
    /\ baseThrower = ThrowerOf(options)
    /\ requestInterceptors = <<>>
    /\ responseInterceptors = <<>>
    /\ calls = [c \in ids |-> IdleCall]

\* new Fetcher(options)
constructor(options) == constructorFor(options, CallIds)

\* The options the instances of the pipeline model are constructed with.
PipelineOptions ==
    { [baseUrl |-> str_localhost],
      [baseUrl |-> str_localhost, baseError |-> "CustomError"] }

NoProbe == [fn |-> "none"]

Init ==
    /\ \E options \in PipelineOptions : constructor(options)
    /\ probe = NoProbe

-----------------------------------------------------------------------------
(* The operations of a Fetcher.                                            *)

\* A registration that puts the handler first: unshift for push.
addRequestInterceptorFirst(handler) ==
    /\ Len(requestInterceptors) < MaxInterceptors
    /\ requestInterceptors' = <<handler>> \o requestInterceptors
    /\ UNCHANGED <<config, responseInterceptors, calls, probe>>

addRequestInterceptor(handler) ==
    /\ Len(requestInterceptors) < MaxInterceptors
    /\ requestInterceptors' = Append(requestInterceptors, handler)
    /\ UNCHANGED <<config, responseInterceptors, calls, probe>>

addResponseInterceptor(handler) ==
    /\ Len(responseInterceptors) < MaxInterceptors
    /\ responseInterceptors' = Append(responseInterceptors, handler)
    /\ UNCHANGED <<config, requestInterceptors, calls, probe>>

\* The arguments of the verb methods in the pipeline model.
CallUrls == {str_test}

CallData == {[kind |-> "object", entries |-> <<<<"name", [t |-> "string", v |-> "test"]>>>>]}

CallOptions == {EmptyObject}

\* The arguments of post: an object that refers to itself too, and per-call
\* headers that give Content-Type: application/json.
CyclicData == [kind |-> "cyclic", entries |-> <<>>]

PostData == CallData \cup {CyclicData}

PostOptions ==
    CallOptions \cup
    {[k \in {"headers"} |-> [h \in {"Content-Type"} |-> "application/json"]]}

\* The lengths of the two lists now.
Registered ==
    [request |-> Len(requestInterceptors), response |-> Len(responseInterceptors)]

\* action(url, params) up to its first await, as the record of the call:
\* the call fails with what building rawRequest throws, or the request is
\* built and requestHandler starts.  The call remembers the lengths the
\* lists had when it was made.
Started(url, params) ==
    LET made == [IdleCall EXCEPT !.url = url,
                                 !.params = params,
                                 !.registered = Registered]
        rawRequest == RawRequest(baseUrl, baseHeaders, baseOptions, url, params)
    IN  IF RawRequestThrows(baseHeaders, params)
        THEN Reject([made EXCEPT
                        !.log = Append(@, Event("rawRequest.failed", 0, "",
                                                CyclicError))],
                    CyclicError)
        ELSE RequestLoop([made EXCEPT !.rawRequest = rawRequest], rawRequest, 1)

\* An action that merges into this.baseHeaders itself, not into a copy:
\* Object.assign(this.baseHeaders, rest.headers), then the delete.
actionAliasing(c, url, params) ==
    /\ calls[c].pc = "idle"
    /\ \A d \in 1..(c - 1) : calls[d].pc # "idle"
    /\ calls' = [calls EXCEPT ![c] = Started(url, params)]
    /\ baseHeaders' = MergedHeaders(baseHeaders, params)
    /\ UNCHANGED <<baseUrl, baseOptions, baseThrower, constructorOptions,
                   requestInterceptors, responseInterceptors, probe>>

\* action(url, params), up to its first await.  Call ids number the
\* invocations in their order.
action(c, url, params) ==
    /\ calls[c].pc = "idle"
    /\ \A d \in 1..(c - 1) : calls[d].pc # "idle"
    /\ calls' = [calls EXCEPT ![c] = Started(url, params)]
    /\ UNCHANGED <<config, requestInterceptors, responseInterceptors, probe>>

get(c) ==
    \E url \in CallUrls, options \in CallOptions :
        action(c, url, GetParams(options))

post(c) ==
    \E url \in CallUrls, data \in PostData, options \in PostOptions :
        action(c, url, BodyParams("POST", data, options))

patch(c) ==
    \E url \in CallUrls, data \in CallData, options \in CallOptions :
        action(c, url, BodyParams("PATCH", data, options))

put(c) ==
    \E url \in CallUrls, data \in CallData, options \in CallOptions :
        action(c, url, BodyParams("PUT", data, options))

delete(c) ==
    \E url \in CallUrls, data \in CallData, options \in CallOptions :
        action(c, url, BodyParams("DELETE", data, options))

\* The steps of a call after its first await leave everything but the call.
Step(c, pc, next) ==
    /\ calls[c].pc = pc
    /\ calls' = [calls EXCEPT ![c] = next]
    /\ UNCHANGED <<config, requestInterceptors, responseInterceptors, probe>>

\* The request interceptor the call awaits returns.
requestInterceptorReturns(c) ==
    Step(c, "requestInterceptor",
         RequestReturned(calls[c],
                         ApplyRequestHandler(
                             HandlerAt(requestInterceptors, calls[c].i),
                             calls[c].request)))

\* The request interceptor the call awaits fails.
requestInterceptorFails(c) ==
    Step(c, "requestInterceptor",
         InterceptorFailed(calls[c],
                           InterceptorError(
                               HandlerAt(requestInterceptors, calls[c].i))))

\* requestHandler has returned: clone and fetch.
dispatch(c) == Step(c, "requestHandled", Dispatch(calls[c]))

\* fetch resolves with a response.
fetchResolves(c) ==
    \E response \in TransportResponses :
        Step(c, "fetch", ResponseArrived(calls[c], response))

\* A pipeline that catches the failure of fetch and throws its own error.
fetchRejectsWrapped(c) ==
    LET error == [kind |-> "FetcherError", url |-> calls[c].reqClone.url,
                  statusCode |-> 0]
    IN  Step(c, "fetch",
             Reject([calls[c] EXCEPT
                        !.log = Append(@, Event("fetch.settled", 0, "",
                                                NetworkError))],
                    error))

\* fetch rejects.
fetchRejects(c) ==
    Step(c, "fetch",
         Reject([calls[c] EXCEPT
                    !.log = Append(@, Event("fetch.settled", 0, "", NetworkError))],
                NetworkError))

\* The response interceptor the call awaits returns.
responseInterceptorReturns(c) ==
    Step(c, "responseInterceptor",
         ResponseReturned(calls[c],
                          ApplyResponseHandler(
                              HandlerAt(responseInterceptors, calls[c].i),
                              calls[c].ctx)))

\* The response interceptor the call awaits fails.
responseInterceptorFails(c) ==
    Step(c, "responseInterceptor",
         InterceptorFailed(calls[c],
                           InterceptorError(
                               HandlerAt(responseInterceptors, calls[c].i))))

\* responseHandler has returned: the ok test.
evaluate(c) == Step(c, "responseHandled", Evaluate(calls[c], baseThrower))

\* The body-reading operation settles.
decodeSettles(c) == Step(c, "decode", Decoded(calls[c]))

Next ==
    \/ \E handler \in RequestHandlers : addRequestInterceptor(handler)
    \/ \E handler \in ResponseHandlers : addResponseInterceptor(handler)
    \/ \E c \in CallIds : get(c)
    \/ \E c \in CallIds : post(c)
    \/ \E c \in CallIds : patch(c)
    \/ \E c \in CallIds : put(c)
    \/ \E c \in CallIds : delete(c)
    \/ \E c \in CallIds : requestInterceptorReturns(c)
    \/ \E c \in CallIds : requestInterceptorFails(c)
    \/ \E c \in CallIds : dispatch(c)
    \/ \E c \in CallIds : fetchResolves(c)
    \/ \E c \in CallIds : fetchRejects(c)
    \/ \E c \in CallIds : responseInterceptorReturns(c)
    \/ \E c \in CallIds : responseInterceptorFails(c)
    \/ \E c \in CallIds : evaluate(c)
    \/ \E c \in CallIds : decodeSettles(c)

Spec == Init /\ [][Next]_vars

\* The continuation of call c after the await it is suspended at.
CallStep(c) ==
    \/ requestInterceptorReturns(c)
    \/ requestInterceptorFails(c)
    \/ dispatch(c)
    \/ fetchResolves(c)
    \/ fetchRejects(c)
    \/ responseInterceptorReturns(c)
    \/ responseInterceptorFails(c)
    \/ evaluate(c)
    \/ decodeSettles(c)

\* Every promise a call awaits settles, and the continuation of a settled
\* promise is run.
Fairness == \A c \in CallIds : WF_vars(CallStep(c))

SpecFair == Spec /\ Fairness

-----------------------------------------------------------------------------
(* Several invocations on one instance: each may start while the ones      *)
(* before it are suspended at an await, and their steps interleave.        *)
(* Registration happens while no invocation is in flight; the instance has *)
(* a base Content-Type, and the bodies include a FormData.                 *)

InFlightIds == 1..MaxInFlight

str_users == <<"/", "u", "s", "e", "r", "s">>

CallsUrls == {str_test, str_users}

CallsData ==
    { [kind |-> "object", entries |-> <<<<"name", [t |-> "string", v |-> "test"]>>>>],
      [kind |-> "FormData", entries |-> <<<<"file", [t |-> "string", v |-> "bytes"]>>>>] }

CallsOptions ==
    { [baseUrl |-> str_localhost,
       baseHeaders |-> [k \in {"Content-Type"} |-> "application/json"]] }

InitCalls ==
    /\ \E options \in CallsOptions : constructorFor(options, InFlightIds)
    /\ probe = NoProbe

\* No invocation is suspended at an await.
NoneInFlight ==
    \A c \in DOMAIN calls : calls[c].pc \in {"idle", "resolved", "rejected"}

\* The two lists hold fewer than MaxInterceptors handlers together.
RoomToRegister ==
    Len(requestInterceptors) + Len(responseInterceptors) < MaxInterceptors

registerRequestInterceptor(handler) ==
    /\ NoneInFlight
    /\ RoomToRegister
    /\ addRequestInterceptor(handler)

registerResponseInterceptor(handler) ==
    /\ NoneInFlight
    /\ RoomToRegister
    /\ addResponseInterceptor(handler)

getUrl(c) ==
    \E url \in CallsUrls : action(c, url, GetParams(EmptyObject))

postData(c) ==
    \E url \in CallsUrls, data \in CallsData :
        action(c, url, BodyParams("POST", data, EmptyObject))

NextCalls ==
    \/ \E handler \in RequestHandlers : registerRequestInterceptor(handler)
    \/ \E handler \in ResponseHandlers : registerResponseInterceptor(handler)
    \/ \E c \in InFlightIds : getUrl(c)
    \/ \E c \in InFlightIds : postData(c)
    \/ \E c \in InFlightIds : requestInterceptorReturns(c)
    \/ \E c \in InFlightIds : requestInterceptorFails(c)
    \/ \E c \in InFlightIds : dispatch(c)
    \/ \E c \in InFlightIds : fetchResolves(c)
    \/ \E c \in InFlightIds : fetchRejects(c)
    \/ \E c \in InFlightIds : responseInterceptorReturns(c)
    \/ \E c \in InFlightIds : responseInterceptorFails(c)
    \/ \E c \in InFlightIds : evaluate(c)
    \/ \E c \in InFlightIds : decodeSettles(c)

SpecCalls == InitCalls /\ [][NextCalls]_vars

-----------------------------------------------------------------------------
(* normalizeUrl on its own: action's call normalizeUrl(baseUrl + url), over *)
(* the URLs assembled from a few pieces.                                   *)

UrlPieces == {<<" ">>, <<"/">>, str_http, <<"s">>, <<":">>, <<"a">>}

RECURSIVE PieceSeqs(_)
PieceSeqs(n) ==
    IF n = 0 THEN {<<>>}
    ELSE LET shorter == PieceSeqs(n - 1)
         IN  shorter \cup {Append(ps, p) : ps \in shorter, p \in UrlPieces}

UrlInputs == {Concat(ps) : ps \in PieceSeqs(MaxUrlPieces)}

NormalizeOptions == {EmptyObject, [baseUrl |-> str_localhost]}

InitNormalize ==
    /\ \E options \in NormalizeOptions : constructor(options)
    /\ \E url \in UrlInputs :
          probe = [fn |-> "normalizeUrl", url |-> url, out |-> <<>>, done |-> FALSE]

\* const normalizedUrl = this.normalizeUrl(`${this.baseUrl}${url}`)
applyNormalizeUrl ==
    /\ probe.fn = "normalizeUrl"
    /\ ~probe.done
    /\ probe' = [probe EXCEPT !.out = normalizeUrl(baseUrl \o probe.url),
                              !.done = TRUE]
    /\ UNCHANGED <<config, requestInterceptors, responseInterceptors, calls>>

NextNormalize == applyNormalizeUrl

SpecNormalize == InitNormalize /\ [][NextNormalize]_vars

-----------------------------------------------------------------------------
(* The request action builds, on its own: over base headers and options,   *)
(* per-call headers and options, and the bodies of the verb methods.       *)

\* The header bags: any of Content-Type and X-Api-Key, each with two values.
HeaderBags ==
    { Spread(ct, key) :
        ct \in {EmptyObject} \cup
               {[k \in {"Content-Type"} |-> v] : v \in {"application/json", "text/plain"}},
        key \in {EmptyObject} \cup
                {[k \in {"X-Api-Key"} |-> v] : v \in {"secret-key", "per-call-key"}} }

\* The option bags other than headers: any of credentials and cache.
OptionBags ==
    { Spread(cr, ca) :
        cr \in {EmptyObject} \cup
               {[k \in {"credentials"} |-> v] : v \in {"include", "omit"}},
        ca \in {EmptyObject} \cup {[k \in {"cache"} |-> "no-store"]} }

\* The options argument of a verb method: an option bag, with or without a
\* headers key.
PerCallOptions ==
    OptionBags \cup
    {Spread(o, [k \in {"headers"} |-> h]) : o \in OptionBags, h \in HeaderBags}

BuildData ==
    { [kind |-> "object", entries |-> <<>>],
      [kind |-> "object", entries |-> <<<<"name", [t |-> "string", v |-> "test"]>>>>],
      [kind |-> "object",
       entries |-> <<<<"name", [t |-> "string", v |-> "test"]>>,
                     <<"id", [t |-> "number", v |-> "1"]>>>>],
      [kind |-> "FormData", entries |-> <<<<"file", [t |-> "string", v |-> "bytes"]>>>>] }

\* The params the verb methods build from their arguments.
BuildParams ==
    {GetParams(o) : o \in PerCallOptions}
    \cup {BodyParams(m, d, o) : m \in {"POST", "PATCH", "PUT", "DELETE"},
                                d \in BuildData, o \in PerCallOptions}
    \cup {BodyParams("DELETE", Undefined, o) : o \in PerCallOptions}

BuildOptions ==
    {[baseHeaders |-> h, baseOptions |-> o] : h \in HeaderBags, o \in OptionBags}

InitBuild ==
    /\ \E options \in BuildOptions : constructor(options)
    /\ \E params \in BuildParams :
          probe = [fn |-> "rawRequest", url |-> str_test, params |-> params,
                   out |-> Undefined, done |-> FALSE]

\* const rawRequest = new Request(normalizedUrl, { ... })
applyRawRequest ==
    /\ probe.fn = "rawRequest"
    /\ ~probe.done
    /\ probe' = [probe EXCEPT
                   !.out = RawRequest(baseUrl, baseHeaders, baseOptions,
                                      probe.url, probe.params),
                   !.done = TRUE]
    /\ UNCHANGED <<config, requestInterceptors, responseInterceptors, calls>>

NextBuild == applyRawRequest

SpecBuild == InitBuild /\ [][NextBuild]_vars

-----------------------------------------------------------------------------
(* The end of action on its own: the ok test and the choice of the         *)
(* body-reading operation, over the headers of the final response.         *)

MediaTypes ==
    { str_text \o <<"x">>, str_image \o <<"x">>, str_audio \o <<"x">>,
      str_video \o <<"x">>, str_application_vnd \o <<".", "x">>,
      str_application_octet_stream, str_application_zip, str_application_json,
      <<"a", "p", "p", "l", "i", "c", "a", "t", "i", "o", "n", "/", "p", "d", "f">> }

ContentTypes ==
    {Concat(<<lead, t, param>>) :
        lead \in {<<>>, <<"x">>}, t \in MediaTypes, param \in {<<>>, <<";", "q">>}}

ContentDispositions ==
    { str_attachment,
      str_attachment \o <<";", "f">>,
      <<"i", "n", "l", "i", "n", "e">> }

DecodeHeaders ==
    { Spread(ct, cd) :
        ct \in {EmptyObject} \cup {[k \in {"Content-Type"} |-> v] : v \in ContentTypes},
        cd \in {EmptyObject} \cup
               {[k \in {"Content-Disposition"} |-> v] : v \in ContentDispositions} }

DecodeResponses ==
    {NewResponse(status, h, [json |-> TRUE, id |-> "data"]) :
        status \in {200, 404}, h \in DecodeHeaders}

InitDecode ==
    /\ constructor([baseUrl |-> str_localhost])
    /\ \E response \in DecodeResponses :
          probe = [fn |-> "decode", response |-> response,
                   out |-> IdleCall, done |-> FALSE]

\* action from the ok test on, for a call whose responseHandler returned
\* probe.response.
applyEvaluate ==
    /\ probe.fn = "decode"
    /\ ~probe.done
    /\ LET request == Clone(OtherRequest)
           call == [IdleCall EXCEPT
                      !.pc = "responseHandled",
                      !.request = request,
                      !.reqClone = request,
                      !.ctx = [request |-> request, response |-> probe.response]]
       IN  probe' = [probe EXCEPT !.out = Evaluate(call, baseThrower),
                                  !.done = TRUE]
    /\ UNCHANGED <<config, requestInterceptors, responseInterceptors, calls>>

NextDecode == applyEvaluate

SpecDecode == InitDecode /\ [][NextDecode]_vars

-----------------------------------------------------------------------------
(* Reading a call's log.                                                   *)

\* The positions of the log that hold an event of evs.
Idx(call, evs) == {k \in 1..Len(call.log) : call.log[k].ev \in evs}

Count(call, evs) == Cardinality(Idx(call, evs))

Last(S) == CHOOSE k \in S : \A m \in S : m <= k

Settled(call) == call.pc \in {"resolved", "rejected"}

\* The body-reading operations.
BodyReads == {"blob", "text", "json"}

\* A request interceptor of the call has failed.
RequestChainFailed(call) ==
    \E k \in Idx(call, {"interceptor.failed"}) :
        k > 1 /\ call.log[k - 1].ev = "requestInterceptor"

\* Building the request of the call threw.
RawRequestFailed(call) == Idx(call, {"rawRequest.failed"}) # {}

\* The call is past fetch(request).
Sent(call) ==
    call.pc \in {"fetch", "responseInterceptor", "responseHandled", "decode"}

-----------------------------------------------------------------------------
(* C1 *)

\* C1, as stated: every invocation of a verb method that has settled has
\* made exactly one fetch.
C1_ExactlyOneSend ==
    \A c \in CallIds :
        Settled(calls[c]) => Count(calls[c], {"fetch"}) = 1

\* C1, amended: an invocation never makes more than one fetch; it has made
\* exactly one once its request interceptors have all returned, and a settled
\* invocation has made none exactly when it failed before the dispatch:
\* building its request threw or one of its request interceptors failed.
C1_AtMostOneSend ==
    \A c \in CallIds :
        LET call == calls[c]
            sends == Count(call, {"fetch"})
        IN  /\ sends <= 1
            /\ Sent(call) => sends = 1
            /\ call.pc \in {"idle", "requestInterceptor", "requestHandled"}
                  => sends = 0
            /\ Settled(call) =>
                  (sends = 0 <=>
                      (RawRequestFailed(call) \/ RequestChainFailed(call)))

\* C1 witness: a call that failed on a response that is not ok, after
\* interceptors of both lists ran, with its one fetch.
C1_Witness ==
    \E c \in CallIds :
        /\ calls[c].pc = "rejected"
        /\ Count(calls[c], {"baseThrower"}) = 1
        /\ Count(calls[c], {"requestInterceptor"}) >= 1
        /\ Count(calls[c], {"responseInterceptor"}) >= 1
        /\ Count(calls[c], {"fetch"}) = 1

-----------------------------------------------------------------------------
(* C2 *)

\* The request interceptor invocations of a call, and their returns.
ReqCalls(call) == Idx(call, {"requestInterceptor"})

ReqReturns(call) == Idx(call, {"requestInterceptor.settled"})

\* C2: in a call, the k-th request interceptor invoked is the k-th of the
\* list; the first is given the request action built and is the first thing
\* the call does; each later one is invoked right after the one before it
\* returned and is given what that one returned; fetch comes after every
\* invoked interceptor has returned, and is given what the last of them
\* returned (the built request when there is none).
C2_RequestChain ==
    \A c \in CallIds :
        LET call == calls[c]
            log == call.log
        IN  /\ \A k \in ReqCalls(call) :
                  LET e == log[k]
                  IN  /\ e.i = Cardinality({m \in ReqCalls(call) : m <= k})
                      /\ e.i <= Len(requestInterceptors)
                      /\ e.h = requestInterceptors[e.i]
                      /\ IF e.i = 1
                         THEN k = 1 /\ e.arg = call.rawRequest
                         ELSE /\ log[k - 1].ev = "requestInterceptor.settled"
                              /\ log[k - 1].i = e.i - 1
                              /\ e.arg = log[k - 1].arg
            /\ \A f \in Idx(call, {"fetch"}) :
                  /\ \A k \in ReqCalls(call) :
                        \E m \in ReqReturns(call) :
                            k < m /\ m < f /\ log[m].i = log[k].i
                  /\ log[f].arg = IF ReqCalls(call) = {}
                                  THEN call.rawRequest
                                  ELSE log[Last(ReqReturns(call))].arg

\* C2 witness: a call that has sent, after two request interceptors that are
\* different handlers, a request other than the one it built.
C2_Witness ==
    \E c \in CallIds :
        LET call == calls[c]
        IN  /\ Count(call, {"fetch"}) = 1
            /\ Count(call, {"requestInterceptor"}) = 2
            /\ requestInterceptors[1] # requestInterceptors[2]
            /\ call.log[Last(Idx(call, {"fetch"}))].arg # call.rawRequest

-----------------------------------------------------------------------------
(* C3 *)

ResCalls(call) == Idx(call, {"responseInterceptor"})

ResReturns(call) == Idx(call, {"responseInterceptor.settled"})

\* The position at which fetch resolved with a response, if it did.
Arrivals(call) ==
    {k \in Idx(call, {"fetch.settled"}) : call.log[k].arg # NetworkError}

\* The response the call tests for ok and reads: the one the log shows at
\* the throw of the error factory or at the body-reading operation.
Evaluated(call) == Idx(call, BodyReads \cup {"baseThrower"})

EvaluatedResponse(call, k) ==
    IF call.log[k].ev = "baseThrower"
    THEN call.log[k].arg.response
    ELSE call.log[k].arg

\* C3: in a call, every response interceptor is invoked after fetch resolved;
\* the k-th invoked is the k-th of the list; the first is given the pair of
\* the clone, taken of the dispatched request before fetch and unread, and
\* the response fetch resolved with; each later one is invoked right after
\* the one before it returned and is given the pair that one returned; the
\* response tested for ok and read is the response of the pair the last one
\* returned (the response of fetch when none was invoked).
C3_ResponseChain ==
    \A c \in CallIds :
        LET call == calls[c]
            log == call.log
        IN  /\ \A k \in ResCalls(call) :
                  LET e == log[k]
                  IN  /\ Arrivals(call) # {}
                      /\ e.i = Cardinality({m \in ResCalls(call) : m <= k})
                      /\ e.i <= Len(responseInterceptors)
                      /\ e.h = responseInterceptors[e.i]
                      /\ IF e.i = 1
                         THEN /\ k - 1 \in Arrivals(call)
                              /\ e.arg.response = log[k - 1].arg
                              /\ e.arg.request = call.reqClone
                              /\ \E f \in Idx(call, {"fetch"}) :
                                    /\ f < k
                                    /\ log[f - 1].ev = "clone"
                                    /\ call.reqClone = Clone(log[f].arg)
                                    /\ ~call.reqClone.bodyUsed
                         ELSE /\ log[k - 1].ev = "responseInterceptor.settled"
                              /\ log[k - 1].i = e.i - 1
                              /\ e.arg = log[k - 1].arg
            /\ \A k \in Evaluated(call) :
                  /\ Arrivals(call) # {}
                  /\ \A m \in ResCalls(call) :
                        \E r \in ResReturns(call) :
                            m < r /\ r < k /\ log[r].i = log[m].i
                  /\ EvaluatedResponse(call, k) =
                        IF ResCalls(call) = {}
                        THEN log[Last(Arrivals(call))].arg
                        ELSE log[Last(ResReturns(call))].arg.response

\* C3 witness: a call with a body that has evaluated its response after two
\* response interceptors that are different handlers, the response evaluated
\* not being the one fetch resolved with.
C3_Witness ==
    \E c \in CallIds :
        LET call == calls[c]
        IN  /\ Evaluated(call) # {}
            /\ Count(call, {"responseInterceptor"}) = 2
            /\ responseInterceptors[1] # responseInterceptors[2]
            /\ call.rawRequest.body # Undefined
            /\ EvaluatedResponse(call, Last(Evaluated(call))) #
                  call.log[Last(Arrivals(call))].arg

-----------------------------------------------------------------------------
(* C4 *)

\* The response responseHandler returned to action, once action has gone on
\* from it.
FinalResponses(call) ==
    IF call.pc = "responseHandled" THEN {}
    ELSE {call.log[k].arg : k \in Idx(call, {"responseHandler.returned"})}

\* C4: when the response responseHandler returned is not ok, the error
\* factory has been called exactly once, with that response and the clone
\* taken of the dispatched request before fetch; the call has failed with the
\* value the factory returned; and no body-reading operation was performed.
C4_NotOkThrows ==
    \A c \in CallIds :
        LET call == calls[c]
            log == call.log
        IN  \A final \in FinalResponses(call) :
                ~final.ok =>
                    /\ Count(call, {"baseThrower"}) = 1
                    /\ Count(call, BodyReads) = 0
                    /\ LET t == log[Last(Idx(call, {"baseThrower"}))].arg
                           f == Last(Idx(call, {"fetch"}))
                       IN  /\ t.response = final
                           /\ t.request = Clone(log[f].arg)
                           /\ log[f - 1].ev = "clone"
                           /\ t.error = CallThrower(baseThrower, t.response, t.request)
                           /\ call.pc = "rejected"
                           /\ call.outcome = t.error

\* C4 witness: a call that failed on a response that is not ok, the request
\* of the interceptors' pair no longer being the clone.
C4_Witness ==
    \E c \in CallIds :
        LET call == calls[c]
        IN  /\ call.pc = "rejected"
            /\ Count(call, {"baseThrower"}) = 1
            /\ call.ctx.request # call.reqClone
            /\ ~call.ctx.response.ok

-----------------------------------------------------------------------------
(* C5 *)

\* The instance has the default error factory: no baseError was given.
DefaultFactory == "baseError" \notin DOMAIN constructorOptions

\* C5, as stated: with the default error factory, a settled call whose fetch
\* resolved with a response that is not ok has failed with a FetcherError of
\* that response's status and the dispatched request's url, and has read no
\* body.
C5_TransportStatus ==
    \A c \in CallIds :
        LET call == calls[c]
            log == call.log
        IN  (DefaultFactory /\ Settled(call)) =>
                \A k \in Arrivals(call) :
                    ~log[k].arg.ok =>
                        /\ call.pc = "rejected"
                        /\ call.outcome.kind = "FetcherError"
                        /\ call.outcome.statusCode = log[k].arg.status
                        /\ call.outcome.url = log[Last(Idx(call, {"fetch"}))].arg.url
                        /\ Count(call, BodyReads) = 0

\* C5, amended: with the default error factory, a call whose final response,
\* the one responseHandler returned, is not ok has failed with a FetcherError
\* of that response's status and the dispatched request's url, and has read
\* no body.
C5_FinalStatus ==
    \A c \in CallIds :
        LET call == calls[c]
            log == call.log
        IN  DefaultFactory =>
                \A final \in FinalResponses(call) :
                    ~final.ok =>
                        /\ call.pc = "rejected"
                        /\ call.outcome =
                              [kind |-> "FetcherError",
                               url |-> log[Last(Idx(call, {"fetch"}))].arg.url,
                               statusCode |-> final.status]
                        /\ Count(call, BodyReads) = 0

\* C5 witness: with the default error factory, a call that dispatched a
\* request other than the one it built and failed on a 404 of fetch.
C5_Witness ==
    \E c \in CallIds :
        LET call == calls[c]
        IN  /\ DefaultFactory
            /\ call.pc = "rejected"
            /\ Count(call, {"baseThrower"}) = 1
            /\ call.outcome.statusCode = 404
            /\ call.outcome.url # call.rawRequest.url

-----------------------------------------------------------------------------
(* C6 *)

\* C6: on an instance constructed with a baseError, every value the error
\* factory produced is the value of baseError for the final response and the
\* clone, and every call that failed on a response that is not ok failed
\* with exactly that value: no FetcherError of the default factory.
C6_CustomFactoryOnly ==
    \A c \in CallIds :
        LET call == calls[c]
            log == call.log
        IN  ~DefaultFactory =>
                /\ \A k \in Idx(call, {"baseThrower"}) :
                      /\ log[k].arg.error =
                            CustomThrower(log[k].arg.response, log[k].arg.request)
                      /\ call.pc = "rejected"
                      /\ call.outcome = log[k].arg.error
                /\ \A final \in FinalResponses(call) :
                      ~final.ok => Count(call, {"baseThrower"}) = 1
                /\ Settled(call) => call.outcome.kind # "FetcherError"

\* C6 witness: on an instance constructed with a baseError, a call that
\* failed on a response that is not ok.
C6_Witness ==
    \E c \in CallIds :
        /\ ~DefaultFactory
        /\ calls[c].pc = "rejected"
        /\ Count(calls[c], {"baseThrower"}) = 1
        /\ calls[c].outcome.kind = "CustomError"

-----------------------------------------------------------------------------
(* C7 *)

HeaderIncludes(headers, name, sub) ==
    name \in DOMAIN headers /\ Includes(headers[name], sub)

HeaderEquals(headers, name, value) ==
    name \in DOMAIN headers /\ headers[name] = value

\* The cases of C7 on the headers of a response.
IsAttachment(h) == HeaderIncludes(h, "Content-Disposition", str_attachment)

IsText(h) == HeaderIncludes(h, "Content-Type", str_text)

IsBinary(h) ==
    \/ \E family \in {str_image, str_audio, str_video, str_application_vnd} :
          HeaderIncludes(h, "Content-Type", family)
    \/ \E type \in {str_application_octet_stream, str_application_zip} :
          HeaderEquals(h, "Content-Type", type)

\* C7: for a final response that is ok, action performs exactly one
\* body-reading operation and throws nothing: blob for an attachment
\* disposition; else text for a text/ content type; else blob for a binary
\* content type; else json, an absent content type included.  An attachment
\* of content type application/json is read as a blob.
C7_DecodingPrecedence ==
    (probe.fn = "decode" /\ probe.done /\ probe.response.ok) =>
        LET h == probe.response.headers
            reads == Idx(probe.out, BodyReads)
            read == probe.out.log[Last(reads)]
        IN  /\ Cardinality(reads) = 1
            /\ Count(probe.out, {"baseThrower"}) = 0
            /\ read.arg = probe.response
            /\ IsAttachment(h) => read.ev = "blob"
            /\ (~IsAttachment(h) /\ IsText(h)) => read.ev = "text"
            /\ (~IsAttachment(h) /\ ~IsText(h) /\ IsBinary(h)) => read.ev = "blob"
            /\ (~IsAttachment(h) /\ ~IsText(h) /\ ~IsBinary(h)) => read.ev = "json"
            /\ (IsAttachment(h) /\ HeaderEquals(h, "Content-Type", str_application_json))
                  => read.ev = "blob"

\* C7 witness: an ok response with Content-Disposition: attachment and
\* Content-Type: application/json, read as a blob.
C7_Witness ==
    /\ probe.fn = "decode"
    /\ probe.done
    /\ probe.response.ok
    /\ HeaderEquals(probe.response.headers, "Content-Disposition", str_attachment)
    /\ HeaderEquals(probe.response.headers, "Content-Type", str_application_json)
    /\ Count(probe.out, {"blob"}) = 1

-----------------------------------------------------------------------------
(* C8 *)

\* The string starts with the scheme of an http or https URL.
HasHttpScheme(s) ==
    \/ StartsWith(s, str_http \o <<":">>)
    \/ StartsWith(s, str_https \o <<":">>)

\* C8: the normalized URL of baseUrl + url, trimmed to t, is t when t has an
\* http or https scheme, "/" + t when t has none and does not start with
\* "/", and t otherwise; so without a scheme it starts with "/"; and
\* normalizing it again changes nothing.
C8_Normalization ==
    (probe.fn = "normalizeUrl" /\ probe.done) =>
        LET t == Trim(baseUrl \o probe.url)
            out == probe.out
        IN  /\ HasHttpScheme(t) => out = t
            /\ (~HasHttpScheme(t) /\ ~StartsWith(t, str_slash)) => out = str_slash \o t
            /\ (~HasHttpScheme(t) /\ StartsWith(t, str_slash)) => out = t
            /\ ~HasHttpScheme(t) => StartsWith(out, str_slash)
            /\ normalizeUrl(out) = out

-----------------------------------------------------------------------------
(* C9 *)

\* The per-call headers and the per-call options other than headers.
PerCallHeaders(params) ==
    IF "headers" \in DOMAIN params THEN params.headers ELSE EmptyObject

PerCallOther(params) == Without(params, {"method", "body", "headers"})

\* merged is the union of base and perCall, perCall's value on a key of both.
IsUnion(merged, base, perCall) ==
    /\ DOMAIN merged = (DOMAIN base) \cup (DOMAIN perCall)
    /\ \A k \in DOMAIN perCall : merged[k] = perCall[k]
    /\ \A k \in (DOMAIN base) \ (DOMAIN perCall) : merged[k] = base[k]

-----------------------------------------------------------------------------
(* C10 *)

\* The merged headers give Content-Type: application/json.
JsonTyped(request) ==
    /\ "Content-Type" \in DOMAIN request.headers
    /\ request.headers["Content-Type"] = "application/json"

\* C10: the body of the request action builds is the JSON text of the data
\* when the merged Content-Type is application/json and the data itself
\* otherwise; the text of a plain object is not the object, and parsing it
\* gives the object back.
C10_JsonBody ==
    (probe.fn = "rawRequest" /\ probe.done) =>
        LET data == ParamBody(probe.params)
            request == probe.out
        IN  /\ JsonTyped(request) => request.body = JSONstringify(data)
            /\ ~JsonTyped(request) => request.body = data
            /\ (JsonTyped(request) /\ data.kind = "object")
                  => /\ request.body.kind = "string"
                     /\ request.body # data
                     /\ JSONparse(request.body) = data
            /\ (~JsonTyped(request) /\ data.kind = "object")
                  => JSONparse(request.body) = SyntaxError

\* C10 witness: a POST of an object of two entries under a base Content-Type
\* of application/json, its body parsing back to the object.
C10_Witness ==
    /\ probe.fn = "rawRequest"
    /\ probe.done
    /\ probe.params.method = "POST"
    /\ ParamBody(probe.params).kind = "object"
    /\ Len(ParamBody(probe.params).entries) = 2
    /\ "Content-Type" \in DOMAIN baseHeaders
    /\ JsonTyped(probe.out)
    /\ JSONparse(probe.out.body) = ParamBody(probe.params)

-----------------------------------------------------------------------------
(* C11 *)

\* C11: the request action builds for a FormData body has no Content-Type
\* among its headers, whatever the base and the per-call headers give for
\* it; every other header of the merge is kept; and its body is the FormData
\* itself, not the JSON text of it.
C11_FormDataRaw ==
    (probe.fn = "rawRequest" /\ probe.done
     /\ isFormData(ParamBody(probe.params))) =>
        LET data == ParamBody(probe.params)
            request == probe.out
            merged == Spread(baseHeaders, PerCallHeaders(probe.params))
        IN  /\ "Content-Type" \notin DOMAIN request.headers
            /\ request.headers = Without(merged, {"Content-Type"})
            /\ request.body = data
            /\ request.body.kind = "FormData"
            /\ request.body # JSONstringify(data)

\* C11 witness: a POST of a FormData built under base headers and per-call
\* headers that both give Content-Type: application/json.
C11_Witness ==
    /\ probe.fn = "rawRequest"
    /\ probe.done
    /\ probe.params.method = "POST"
    /\ isFormData(ParamBody(probe.params))
    /\ HeaderEquals(baseHeaders, "Content-Type", "application/json")
    /\ HeaderEquals(PerCallHeaders(probe.params), "Content-Type",
                        "application/json")
    /\ "X-Api-Key" \in DOMAIN probe.out.headers
    /\ probe.out.body = ParamBody(probe.params)

-----------------------------------------------------------------------------
(* C12 *)

\* A response interceptor of the call has failed.
ResponseChainFailed(call) ==
    \E k \in Idx(call, {"interceptor.failed"}) :
        k > 1 /\ call.log[k - 1].ev = "responseInterceptor"

\* fetch rejected in the call.
FetchFailed(call) ==
    \E k \in Idx(call, {"fetch.settled"}) : call.log[k].arg = NetworkError

\* Every change of a list is an append of one handler at its end, and
\* leaves the other list as it is.
AppendOnly ==
    /\ requestInterceptors' # requestInterceptors =>
          /\ \E h \in RequestHandlers :
                requestInterceptors' = Append(requestInterceptors, h)
          /\ responseInterceptors' = responseInterceptors
    /\ responseInterceptors' # responseInterceptors =>
          /\ \E h \in ResponseHandlers :
                responseInterceptors' = Append(responseInterceptors, h)
          /\ requestInterceptors' = requestInterceptors

\* The call has invoked the first n handlers of the list, as the list is now,
\* in the events evs.
RanFirst(call, evs, list, n) ==
    \A i \in 1..n :
        \E k \in Idx(call, evs) : call.log[k].i = i /\ call.log[k].h = list[i]

\* The call has run every interceptor that was registered when it started.
RanAllRegistered(call) ==
    /\ RanFirst(call, {"requestInterceptor"}, requestInterceptors,
                call.registered.request)
    /\ RanFirst(call, {"responseInterceptor"}, responseInterceptors,
                call.registered.response)

\* The dispatched request of the call carries the header of a setHeader
\* handler that was registered when the call started, no handler invoked
\* after it having substituted another request.
HeaderCarried(call) ==
    \A f \in Idx(call, {"fetch"}) :
        LET n == Count(call, {"requestInterceptor"})
        IN  (\E i \in 1..call.registered.request :
                /\ requestInterceptors[i] = "setHeader"
                /\ \A j \in (i + 1)..n : requestInterceptors[j] # "substitute")
            => /\ "X-Test-Header" \in DOMAIN call.log[f].arg.headers
               /\ call.log[f].arg.headers["X-Test-Header"] = "interceptor-works"

-----------------------------------------------------------------------------
(* C13 *)

\* The invocations of the response interceptor at position i in the call.
ResCallsAt(call, i) == {k \in ResCalls(call) : call.log[k].i = i}

\* The pair responseHandler starts from in a call whose fetch resolved: the
\* clone of the dispatched request and the response of fetch.
OriginalPair(call) ==
    [request |-> Clone(call.log[Last(Idx(call, {"fetch"}))].arg),
     response |-> call.log[Last(Arrivals(call))].arg]

\* C13, as stated: in a settled call whose fetch resolved, every response
\* interceptor that was registered when the call started has been invoked
\* exactly once, with the clone of the dispatched request and the response
\* of fetch.
C13_EachGetsOriginal ==
    \A c \in CallIds :
        LET call == calls[c]
        IN  (Settled(call) /\ Arrivals(call) # {}) =>
                \A i \in 1..call.registered.response :
                    /\ Cardinality(ResCallsAt(call, i)) = 1
                    /\ \A k \in ResCallsAt(call, i) :
                          call.log[k].arg = OriginalPair(call)

\* C13, amended: in a call, no response interceptor is invoked unless fetch
\* resolved, and none more than once; the first of the list is invoked
\* exactly once as soon as fetch resolved, with the unread clone of the
\* dispatched request and the response of fetch; a later one receives that
\* same pair when every one before it returned its argument; and once the
\* chain has returned, every interceptor registered when the call started
\* has been invoked exactly once.  One that is not invoked in a settled call
\* whose fetch resolved follows one that failed.
C13_OncePerArrival ==
    \A c \in CallIds :
        LET call == calls[c]
            log == call.log
        IN  /\ Arrivals(call) = {} => ResCalls(call) = {}
            /\ \A i \in 1..MaxInterceptors : Cardinality(ResCallsAt(call, i)) <= 1
            /\ \A k \in ResCalls(call) :
                  /\ ~OriginalPair(call).request.bodyUsed
                  /\ log[k].i = 1 =>
                        /\ k - 1 \in Arrivals(call)
                        /\ log[k].arg = OriginalPair(call)
                  /\ (\A j \in 1..(log[k].i - 1) : responseInterceptors[j] = "pass")
                        => log[k].arg = OriginalPair(call)
            /\ Idx(call, {"responseHandler.returned"}) # {} =>
                  \A i \in 1..call.registered.response :
                      Cardinality(ResCallsAt(call, i)) = 1
            /\ (Settled(call) /\ Arrivals(call) # {}) =>
                  \A i \in 1..call.registered.response :
                      \/ Cardinality(ResCallsAt(call, i)) = 1
                      \/ /\ ResponseChainFailed(call)
                         /\ i > Count(call, {"responseInterceptor"})

\* C13 witness: a settled call with a body whose fetch resolved, two response
\* interceptors registered before it, the first returning its argument: both
\* were invoked once and the second received the original pair.
C13_Witness ==
    \E c \in CallIds :
        LET call == calls[c]
        IN  /\ Settled(call)
            /\ Arrivals(call) # {}
            /\ call.rawRequest.body # Undefined
            /\ call.registered.response = 2
            /\ responseInterceptors = <<"pass", "replace">>
            /\ \A i \in {1, 2} : Cardinality(ResCallsAt(call, i)) = 1
            /\ \A k \in ResCallsAt(call, 2) : call.log[k].arg = OriginalPair(call)

-----------------------------------------------------------------------------
(* C14 *)

\* C14: in a call whose fetch rejected, the call has failed with the very
\* value fetch rejected with, as the next thing it did; it has made that one
\* fetch and no other, and it has invoked no response interceptor and no
\* error factory and performed no body-reading operation.
C14_TransportFailure ==
    \A c \in CallIds :
        LET call == calls[c]
            log == call.log
        IN  \A k \in Idx(call, {"fetch.settled"}) :
                log[k].arg = NetworkError =>
                    /\ call.pc = "rejected"
                    /\ call.outcome = log[k].arg
                    /\ Len(log) = k + 1
                    /\ log[k + 1] = Event("reject", 0, "", log[k].arg)
                    /\ log[k - 1].ev = "fetch"
                    /\ Count(call, {"fetch"}) = 1
                    /\ Count(call, {"fetch.settled"}) = 1
                    /\ Count(call, {"responseInterceptor"}) = 0
                    /\ Count(call, {"baseThrower"}) = 0
                    /\ Count(call, BodyReads) = 0

\* C14 witness: a call whose fetch rejected after a request interceptor ran,
\* response interceptors being registered.
C14_Witness ==
    \E c \in CallIds :
        /\ FetchFailed(calls[c])
        /\ calls[c].pc = "rejected"
        /\ calls[c].outcome = NetworkError
        /\ Count(calls[c], {"requestInterceptor"}) >= 1
        /\ calls[c].registered.response = MaxInterceptors

-----------------------------------------------------------------------------
(* C15 *)

\* C15: in a call in which an interceptor failed at position i of its chain,
\* the failure followed the invocation at position i and is the value that
\* handler threw; the call has failed with that very value as the next thing
\* it did; no interceptor of that chain at a later position was invoked;
\* after a failing request interceptor there is no clone, no fetch, no
\* response interceptor, no error factory and no body-reading operation;
\* after a failing response interceptor there is no error factory and no
\* body-reading operation.
C15_InterceptorFailure ==
    \A c \in CallIds :
        LET call == calls[c]
            log == call.log
        IN  \A k \in Idx(call, {"interceptor.failed"}) :
                LET chain == log[k - 1].ev
                    i == log[k].i
                IN  /\ chain \in {"requestInterceptor", "responseInterceptor"}
                    /\ log[k - 1].i = i
                    /\ log[k].arg = InterceptorError(log[k - 1].h)
                    /\ call.pc = "rejected"
                    /\ call.outcome = log[k].arg
                    /\ Len(log) = k + 1
                    /\ log[k + 1] = Event("reject", 0, "", log[k].arg)
                    /\ Count(call, {"interceptor.failed"}) = 1
                    /\ \A m \in Idx(call, {chain}) : log[m].i <= i
                    /\ Count(call, {"baseThrower"}) = 0
                    /\ Count(call, BodyReads) = 0
                    /\ chain = "requestInterceptor" =>
                          /\ Count(call, {"clone", "fetch", "fetch.settled"}) = 0
                          /\ Count(call, {"responseInterceptor"}) = 0
                    /\ chain = "responseInterceptor" =>
                          /\ Count(call, {"fetch"}) = 1
                          /\ Arrivals(call) # {}

\* C15 witness: a call that failed with the error of the first of two
\* registered response interceptors, after two request interceptors ran.
C15_Witness ==
    \E c \in CallIds :
        LET call == calls[c]
        IN  /\ call.pc = "rejected"
            /\ ResponseChainFailed(call)
            /\ call.registered.response = 2
            /\ Count(call, {"responseInterceptor"}) = 1
            /\ Count(call, {"requestInterceptor"}) = 2
            /\ call.outcome = InterceptorError(responseInterceptors[1])

-----------------------------------------------------------------------------
(* C16 *)

\* requestHandler(request) over the handlers list, when none fails.
RECURSIVE requestHandler(_, _)
requestHandler(list, request) ==
    IF list = <<>> THEN request
    ELSE requestHandler(Tail(list), ApplyRequestHandler(Head(list), request))

\* responseHandler's loop over the handlers list from ctx, when none fails.
RECURSIVE responseHandler(_, _)
responseHandler(list, ctx) ==
    IF list = <<>> THEN ctx
    ELSE responseHandler(Tail(list), ApplyResponseHandler(Head(list), ctx))

\* The lists as they were when the call was made.
RequestListOf(call) == SubSeq(requestInterceptors, 1, call.registered.request)

ResponseListOf(call) == SubSeq(responseInterceptors, 1, call.registered.response)

\* The outcome of a settled call had it run alone with the same arguments,
\* the same interceptor failing if one did, and the same settlement of fetch.
AloneOutcome(call) ==
    IF RequestChainFailed(call)
    THEN InterceptorError(RequestListOf(call)[Count(call, {"requestInterceptor"})])
    ELSE IF FetchFailed(call)
    THEN NetworkError
    ELSE IF ResponseChainFailed(call)
    THEN InterceptorError(ResponseListOf(call)[Count(call, {"responseInterceptor"})])
    ELSE LET sent == requestHandler(RequestListOf(call), call.rawRequest)
             first == [request |-> Clone(sent),
                       response |-> call.log[Last(Arrivals(call))].arg]
             final == responseHandler(ResponseListOf(call), first).response
         IN  IF ~final.ok
             THEN CallThrower(baseThrower, final, Clone(sent))
             ELSE Decode(DecodeKind(final), final).value

\* C16: with several calls in flight and no registration meanwhile, every
\* call is what it would be alone: its request is built from its own url and
\* params; each request interceptor is given, and fetch is sent, the fold of
\* the handlers over that request; its clone is the clone of that dispatched
\* request; each response interceptor is given the fold over the pair of
\* that clone and the response its own fetch resolved with; and its outcome
\* is the one these determine.
C16_NoInterference ==
    \A c \in DOMAIN calls :
        LET call == calls[c]
            log == call.log
            reqList == RequestListOf(call)
            resList == ResponseListOf(call)
        IN  call.pc # "idle" =>
                /\ call.rawRequest =
                      RawRequest(baseUrl, baseHeaders, baseOptions,
                                 call.url, call.params)
                /\ \A k \in ReqCalls(call) :
                      /\ log[k].h = reqList[log[k].i]
                      /\ log[k].arg =
                            requestHandler(SubSeq(reqList, 1, log[k].i - 1),
                                           call.rawRequest)
                /\ \A f \in Idx(call, {"fetch"}) :
                      /\ log[f].arg = requestHandler(reqList, call.rawRequest)
                      /\ call.reqClone = Clone(log[f].arg)
                      /\ call.request = Consumed(log[f].arg)
                /\ \A k \in ResCalls(call) :
                      /\ log[k].h = resList[log[k].i]
                      /\ log[k].arg =
                            responseHandler(SubSeq(resList, 1, log[k].i - 1),
                                            OriginalPair(call))
                /\ \A k \in Evaluated(call) :
                      EvaluatedResponse(call, k) =
                          responseHandler(resList, OriginalPair(call)).response
                /\ Settled(call) => call.outcome = AloneOutcome(call)

\* C16 witness: the second call, made while the first was suspended, has
\* returned while the first is still suspended in its response chain; the
\* two have different urls, bodies and responses of fetch.
C16_Witness ==
    /\ DOMAIN calls = InFlightIds
    /\ calls[1].pc = "responseInterceptor"
    /\ calls[2].pc = "resolved"
    /\ calls[1].url # calls[2].url
    /\ calls[1].rawRequest.body # calls[2].rawRequest.body
    /\ calls[1].log[Last(Arrivals(calls[1]))].arg #
          calls[2].log[Last(Arrivals(calls[2]))].arg
    /\ Count(calls[2], {"requestInterceptor"}) >= 1

-----------------------------------------------------------------------------
(* C17 *)

\* The stored configuration is the one the constructor made of its options.
ConfigAsConstructed ==
    /\ baseUrl = OptionOr(constructorOptions, "baseUrl", <<>>, <<>>)
    /\ baseHeaders =
          IF "baseHeaders" \in DOMAIN constructorOptions
          THEN constructorOptions.baseHeaders
          ELSE EmptyObject
    /\ baseOptions =
          IF "baseOptions" \in DOMAIN constructorOptions
          THEN constructorOptions.baseOptions
          ELSE EmptyObject
    /\ baseThrower = ThrowerOf(constructorOptions)

\* C17: whatever calls were made and handlers registered, the stored
\* baseUrl, baseHeaders, baseOptions and error factory are those of the
\* construction; a call made with a FormData body has no Content-Type in its
\* own headers, and every call made with another body or none, one made
\* after a FormData call included, has the configured Content-Type.
C17_ConfigurationKept ==
    /\ ConfigAsConstructed
    /\ \A c \in DOMAIN calls :
          LET call == calls[c]
          IN  call.pc # "idle" =>
                  IF isFormData(ParamBody(call.params))
                  THEN "Content-Type" \notin DOMAIN call.rawRequest.headers
                  ELSE /\ "Content-Type" \in DOMAIN call.rawRequest.headers
                       /\ call.rawRequest.headers["Content-Type"] =
                             constructorOptions.baseHeaders["Content-Type"]

\* C17 witness: after a call with a FormData body has settled and a handler
\* was registered, a POST of an object has been made: its request has the
\* configured Content-Type and the JSON text of the object as body.
C17_Witness ==
    /\ DOMAIN calls = InFlightIds
    /\ Settled(calls[1])
    /\ isFormData(ParamBody(calls[1].params))
    /\ "Content-Type" \notin DOMAIN calls[1].rawRequest.headers
    /\ calls[2].pc # "idle"
    /\ calls[2].registered.request > calls[1].registered.request
    /\ ParamBody(calls[2].params).kind = "object"
    /\ JsonTyped(calls[2].rawRequest)
    /\ calls[2].rawRequest.body = JSONstringify(ParamBody(calls[2].params))

-----------------------------------------------------------------------------
(* C18 *)

\* C18: in a call whose fetch resolved, whatever the status of the response,
\* the response chain starts at once, with the first interceptor when one
\* was registered when the call was made; the ok test and what follows it
\* come after every interceptor invocation; and the branch is that of the
\* ok flag of the response responseHandler returned alone: ok, no error
\* factory and one body-reading operation on that response; not ok, one
\* error factory call on that response, the call failing with its value,
\* and no body-reading operation.
C18_FinalResponseDecides ==
    \A c \in CallIds :
        LET call == calls[c]
            log == call.log
        IN  /\ \A k \in Arrivals(call) :
                  /\ Len(log) > k
                  /\ log[k + 1].ev \in {"responseInterceptor",
                                         "responseHandler.returned"}
                  /\ call.registered.response >= 1
                        => /\ log[k + 1].ev = "responseInterceptor"
                           /\ log[k + 1].arg.response = log[k].arg
            /\ \A k \in Evaluated(call) :
                  /\ \A m \in ResCalls(call) \cup ResReturns(call) : m < k
                  /\ log[k - 1].ev = "responseHandler.returned"
                  /\ EvaluatedResponse(call, k) = log[k - 1].arg
            /\ \A final \in FinalResponses(call) :
                  IF final.ok
                  THEN /\ Count(call, {"baseThrower"}) = 0
                       /\ Count(call, BodyReads) = 1
                       /\ call.pc \in {"decode", "resolved", "rejected"}
                       /\ call.pc = "resolved" =>
                             call.outcome = Decode(DecodeKind(final), final).value
                       /\ call.pc = "rejected" =>
                             call.outcome = SyntaxError
                  ELSE /\ Count(call, {"baseThrower"}) = 1
                       /\ Count(call, BodyReads) = 0
                       /\ call.pc = "rejected"
                       /\ call.outcome =
                             CallThrower(baseThrower, final, call.reqClone)

\* C18 witness: fetch resolved with a 404, a response interceptor replaced
\* it by a success, and the call returned the decoded body of that one.
C18_Witness ==
    \E c \in CallIds :
        LET call == calls[c]
        IN  /\ call.pc = "resolved"
            /\ call.log[Last(Arrivals(call))].arg.status = 404
            /\ call.ctx.response.ok
            /\ Count(call, {"baseThrower"}) = 0
            /\ call.outcome.of = call.ctx.response.body

-----------------------------------------------------------------------------
(* C19 *)

\* Where a call is with respect to its two chains.
BeforeOrInRequestChain == {"idle", "requestInterceptor"}

BeforeOrInResponseChain ==
    BeforeOrInRequestChain \cup {"requestHandled", "fetch", "responseInterceptor"}

\* The step takes call c out of its request chain, which it entered with
\* its request built, or out of its response chain having reached it.
LeavesRequestChain(c) ==
    /\ calls[c].pc \in BeforeOrInRequestChain
    /\ calls'[c].pc \notin BeforeOrInRequestChain
    /\ ~RawRequestFailed(calls'[c])

LeavesResponseChain(c) ==
    /\ calls[c].pc \in {"fetch", "responseInterceptor"}
    /\ calls'[c].pc \notin {"fetch", "responseInterceptor"}

\* In the call, the invocations in evs are of the first handlers of the
\* list, each once, in the order of the list.
InListOrder(call, evs, list) ==
    /\ RanFirst(call, evs, list, Count(call, evs))
    /\ \A k \in Idx(call, evs) :
          call.log[k].i = Cardinality({m \in Idx(call, evs) : m <= k})

\* A call past a chain invokes no interceptor of it any more.
ChainsStayFinished ==
    \A c \in CallIds :
        /\ calls[c].pc \notin BeforeOrInRequestChain =>
              Count(calls'[c], {"requestInterceptor"}) =
                  Count(calls[c], {"requestInterceptor"})
        /\ calls[c].pc \notin BeforeOrInResponseChain =>
              Count(calls'[c], {"responseInterceptor"}) =
                  Count(calls[c], {"responseInterceptor"})

\* C19, as stated: whenever a call leaves a chain it has executed every
\* interceptor of the list as the list is then, those appended while it was
\* suspended in or before the chain included; afterwards it executes none;
\* and each is run at most once and in list order.
C19_LiveListAllRun ==
    /\ [](\A c \in CallIds :
             /\ InListOrder(calls[c], {"requestInterceptor"}, requestInterceptors)
             /\ InListOrder(calls[c], {"responseInterceptor"}, responseInterceptors))
    /\ [][ChainsStayFinished]_vars
    /\ [][\A c \in CallIds :
             /\ LeavesRequestChain(c) =>
                   Count(calls'[c], {"requestInterceptor"}) = Len(requestInterceptors)
             /\ LeavesResponseChain(c) =>
                   Count(calls'[c], {"responseInterceptor"}) = Len(responseInterceptors)
          ]_vars

\* C19, amended: a call leaves a chain either by the failure of an
\* interceptor of it (or, for the response chain, of fetch) or having
\* executed every interceptor of the list as the list is then, those
\* appended while it was suspended in or before the chain included;
\* afterwards it executes none; and each is run at most once and in list
\* order.
C19_LiveList ==
    /\ [](\A c \in CallIds :
             /\ InListOrder(calls[c], {"requestInterceptor"}, requestInterceptors)
             /\ InListOrder(calls[c], {"responseInterceptor"}, responseInterceptors))
    /\ [][ChainsStayFinished]_vars
    /\ [][\A c \in CallIds :
             /\ LeavesRequestChain(c) =>
                   \/ /\ calls'[c].pc = "requestHandled"
                      /\ Count(calls'[c], {"requestInterceptor"}) =
                            Len(requestInterceptors)
                   \/ /\ calls'[c].pc = "rejected"
                      /\ RequestChainFailed(calls'[c])
             /\ LeavesResponseChain(c) =>
                   \/ /\ calls'[c].pc = "responseHandled"
                      /\ Count(calls'[c], {"responseInterceptor"}) =
                            Len(responseInterceptors)
                   \/ /\ calls'[c].pc = "rejected"
                      /\ \/ FetchFailed(calls'[c])
                         \/ ResponseChainFailed(calls'[c])
          ]_vars

\* C19 witness: a call that has returned executed a request interceptor and
\* a response interceptor appended after it was made, and did not execute a
\* response interceptor appended after its response chain had finished.
C19_Witness ==
    \E c \in CallIds :
        LET call == calls[c]
        IN  /\ call.pc = "resolved"
            /\ Count(call, {"requestInterceptor"}) > call.registered.request
            /\ Count(call, {"responseInterceptor"}) > call.registered.response
            /\ Len(responseInterceptors) > Count(call, {"responseInterceptor"})

-----------------------------------------------------------------------------
(* C20 *)

\* The response responseHandler returned in the call, if it returned.
Finals(call) ==
    {call.log[k].arg : k \in Idx(call, {"responseHandler.returned"})}

\* The ways a call settles.
\* It returns what the body-reading operation gave for an ok final response.
ReturnedDecoded(call) ==
    /\ call.pc = "resolved"
    /\ \E final \in Finals(call) :
          /\ final.ok
          /\ Decode(DecodeKind(final), final).ok
          /\ call.outcome = Decode(DecodeKind(final), final).value
          /\ call.outcome.of = final.body

\* It fails with what fetch rejected with.
FailedByTransport(call) ==
    /\ call.pc = "rejected"
    /\ FetchFailed(call)
    /\ call.outcome = NetworkError

\* It fails with what an interceptor threw.
FailedByInterceptor(call) ==
    /\ call.pc = "rejected"
    /\ \E k \in Idx(call, {"interceptor.failed"}) : call.outcome = call.log[k].arg

\* It fails with the value of the error factory for a final response that
\* is not ok.
FailedByFactory(call) ==
    /\ call.pc = "rejected"
    /\ \E k \in Idx(call, {"baseThrower"}) :
          /\ ~call.log[k].arg.response.ok
          /\ call.log[k].arg.response \in Finals(call)
          /\ call.outcome = call.log[k].arg.error

\* It fails with what the body-reading operation rejected with.
FailedByDecoding(call) ==
    /\ call.pc = "rejected"
    /\ \E k \in Idx(call, BodyReads) :
          /\ ~Decode(call.log[k].ev, call.log[k].arg).ok
          /\ call.outcome = Decode(call.log[k].ev, call.log[k].arg).value

\* It fails with what building its request threw.
FailedByBuilding(call) ==
    /\ call.pc = "rejected"
    /\ \E k \in Idx(call, {"rawRequest.failed"}) : call.outcome = call.log[k].arg

\* How many of the ways of the set hold of the call.
Ways(call, ways) ==
    Cardinality({w \in ways :
        \/ w = "decoded" /\ ReturnedDecoded(call)
        \/ w = "transport" /\ FailedByTransport(call)
        \/ w = "interceptor" /\ FailedByInterceptor(call)
        \/ w = "factory" /\ FailedByFactory(call)
        \/ w = "decoding" /\ FailedByDecoding(call)
        \/ w = "building" /\ FailedByBuilding(call)})

\* The ways C20 names.
NamedWays == {"decoded", "transport", "interceptor", "factory", "decoding"}

\* A settled call settled once, and stays as it is.
SettledOnce(call) == Count(call, {"resolve", "reject"}) = 1

StaysSettled ==
    \A c \in CallIds : Settled(calls[c]) => calls'[c] = calls[c]

=============================================================================
